---- MODULE Spec2Model ----
(***************************************************************************)
(* The request execution pipeline of zeph-http's createZephClient:         *)
(* request(), request.withCancel(), cancelAll() and the interceptor        *)
(* registry, as implemented in packages/zeph-http/src (the client module   *)
(* with lifecycle hooks, retry and response validation).                   *)
(*                                                                         *)
(* request() is an async function.  Every action below runs the code from  *)
(* one await to the next: the JavaScript run-to-completion rule makes      *)
(* that stretch atomic.  The awaits are: each request interceptor, the     *)
(* transport call (fetch), the body read, each response interceptor and    *)
(* the retry delay.                                                        *)
(***************************************************************************)
EXTENDS Integers, Sequences, FiniteSets, TLC

\* ------------------------------------------------------------------ bounds
MaxRetry == 2
MaxHandlers == 2
NReq == 2

Reqs == 1..NReq
None == "none"
HeaderKeys == {"auth"}
\* keys of defaultConfig.headers: the client is created with a default header
DefaultHeaders == {"auth"}

\* res.status values the transport is made to answer with
Statuses == {200, 304, 404, 500}
\* what the body reader finds: valid JSON, text that is not JSON, a read error
Bodies == {"json", "text", "broken"}

VARIABLES
  requestHandlers,    \* interceptors.request.handlers.length
  responseHandlers,   \* interceptors.response.handlers.length
  activeControllers,  \* the client's Set<AbortController>
  req,                \* per request() call: its locals and what it has done
  peerControllers,    \* the Set<AbortController> of a second client instance
  composite           \* one combineAbortSignals call: its inputs, the
                      \* listeners it added and its controller

vars == <<requestHandlers, responseHandlers, activeControllers, req,
          peerControllers, composite>>

\* ------------------------------------------------------------ error values
NoRequest == [kind |-> None, headers |-> [k \in HeaderKeys |-> None]]

\* `undefined`: what `lastError` holds before any attempt has failed
Undefined ==
  [kind |-> "undefined", name |-> None, code |-> None, status |-> 0,
   data |-> None, headers |-> None, request |-> NoRequest, cause |-> None,
   interceptorType |-> None, interceptorIndex |-> -1]

\* new ZephHttpError(message, options): Object.assign(this, options)
ZephHttpError(code, status, data, headers, request, cause) ==
  [kind |-> "ZephHttpError", name |-> "ZephHttpError", code |-> code,
   status |-> status, data |-> data, headers |-> headers,
   request |-> request, cause |-> cause,
   interceptorType |-> None, interceptorIndex |-> -1]

\* a value thrown by the transport, the body reader or user code: not a
\* ZephHttpError; name is "AbortError", "TypeError", "SyntaxError" or "Error"
RawError(name) ==
  [kind |-> "Error", name |-> name, code |-> None, status |-> 0,
   data |-> None, headers |-> None, request |-> NoRequest, cause |-> None,
   interceptorType |-> None, interceptorIndex |-> -1]

\* faulty variant: the index is not recorded
WrapInterceptorError_NoIndex(err, interceptorType, index) ==
  IF err.kind = "ZephHttpError"
  THEN [err EXCEPT !.interceptorType = interceptorType]
  ELSE [ZephHttpError(None, 0, None, None, NoRequest, err.name)
          EXCEPT !.interceptorType = interceptorType]

\* wrapInterceptorError(err, interceptorType, index)
WrapInterceptorError(err, interceptorType, index) ==
  IF err.kind = "ZephHttpError"
  THEN [err EXCEPT !.interceptorType = interceptorType,
                   !.interceptorIndex = index]
  ELSE [ZephHttpError(None, 0, None, None, NoRequest, err.name)
          EXCEPT !.interceptorType = interceptorType,
                 !.interceptorIndex = index]

\* -------------------------------------------------------------- the config
\* ZephRequestConfig values request() is called with.  An absent retry count
\* is the count 0 (finalConfig.retry ?? 0); retry -1 is a count below zero.
Paths == {"missing", "empty", "/todos"}
Methods == {None, "GET", "POST", "TRACE"}
Timeouts == {None, "positive", "negative"}
RetryCounts == -1..MaxRetry
RetryDelays == {None, "number", "function"}
ResponseTypes == {None, "text"}

AllConfigs ==
  [path : Paths, method : Methods, body : BOOLEAN, headers : SUBSET HeaderKeys,
   timeoutMs : Timeouts, signal : BOOLEAN, retry : RetryCounts,
   retryDelay : RetryDelays, responseType : ResponseTypes,
   responseSchema : BOOLEAN]

\* a plain GET: what the retry loop reads (timeout, signal, retry count and
\* delay, response type and schema) varies freely
PlainGet(config) ==
  /\ config.path = "/todos" /\ config.method \in {None, "GET"} /\ ~config.body
  /\ config.headers = {} /\ config.timeoutMs # "negative"

\* a single attempt: what validation, the interceptors and the guards read
\* (path, method, body, headers, a malformed timeout) varies freely
SingleAttempt(config) ==
  /\ config.retry = 0 /\ config.retryDelay = None /\ ~config.signal
  /\ config.timeoutMs # "positive" /\ config.responseType = None
  /\ ~config.responseSchema

Configs == {config \in AllConfigs : PlainGet(config) \/ SingleAttempt(config)}

\* faulty variant: path is z.string() without .min(1)
SchemaValid_NoMin(config) ==
  /\ config.path # "missing"
  /\ config.method \in {None, "GET", "POST", "PUT", "DELETE", "PATCH", "OPTIONS", "HEAD"}
  /\ config.timeoutMs # "negative"

\* ZephRequestConfigSchema.safeParse(config).success
SchemaValid(config) ==
  /\ config.path \notin {"missing", "empty"}
  /\ config.method \in {None, "GET", "POST", "PUT", "DELETE", "PATCH", "OPTIONS", "HEAD"}
  /\ config.timeoutMs # "negative"

\* { ...(defaultConfig.headers || {}), ...(config.headers || {}) }
MergeHeaders(defaults, call) ==
  [k \in HeaderKeys |->
     IF call[k] # None THEN call[k]
     ELSE IF k \in defaults THEN "default" ELSE None]

ConfigHeaders(config) ==
  [k \in HeaderKeys |-> IF k \in config.headers THEN "request" ELSE None]

\* ------------------------------------------------------ per-request state
Idle ==
  [pc |-> "idle",
   config |-> [path |-> "/todos", method |-> None, body |-> FALSE, headers |-> {},
               timeoutMs |-> None, signal |-> FALSE, retry |-> 0,
               retryDelay |-> None, responseType |-> None,
               responseSchema |-> FALSE],
   headers |-> [k \in HeaderKeys |-> None],   \* finalConfig.headers
   sentHeaders |-> [k \in HeaderKeys |-> None],   \* `headers`, as given to fetch
   userAborted |-> FALSE,      \* config.signal.aborted
   i |-> 0,                    \* index of the interceptor being awaited
   handed |-> None,            \* what that interceptor was called with: the
                               \* headers of finalConfig, or response.data
   returned |-> None,          \* what the interceptor before it resolved with
   attempt |-> 0,
   maxRetries |-> 0,
   timer |-> None,             \* this attempt's timeout timer
   outerTimer |-> None,        \* the timer created before the retry loop
   staleTimers |-> 0,          \* attempt timers left pending by an early throw
   internalAborted |-> FALSE,  \* this attempt's internalController.signal.aborted
   combinedAborted |-> FALSE,  \* this attempt's combinedSignal.aborted
   status |-> 0,               \* res.status
   data |-> None,              \* the decoded body, then response.data
   lastError |-> Undefined,
   rejection |-> Undefined,    \* the value request() rejects with, once rejected
   \* what has happened, kept for the properties:
   abortedEarly |-> FALSE,     \* the caller's signal fired before any transport call
   clientError |-> 0,          \* the transport call (1, 2, ..) answered with a 4xx
   threw |-> None,             \* the user code that threw: "request", "response"
                               \* (interceptor, this attempt) or "retryDelay"
   cancelAll |-> 0,            \* cancelAll() was called with this request in
                               \* flight: how many requests were in flight then
   abortedBy |-> None,         \* what aborted this attempt's combined signal
                               \* first: "signal", "timer" or "cancelAll"
   client |-> 1,               \* the client instance the call was made through
   handle |-> FALSE,           \* the call was made through request.withCancel
   triggeredAt |-> -1,         \* the transport calls made when the signal the
                               \* caller supplied aborted; -1: it has not
   callerSignal |-> None,      \* the signal in the config handed to withCancel:
                               \* "pending" or "aborted"
   responseOnErrorCalls |-> 0, \* calls of interceptors.response.handlers[i].onError
   plainText |-> None,         \* what reading this attempt's body as text, as
                               \* the first read of it, gives
   fetchCalls |-> 0,           \* transport calls made
   delays |-> 0,               \* retry delays computed
   retryDelayCalls |-> 0,      \* calls of the retryDelay function
   retryDelayArg |-> 0,        \* the attempt number of the last call
   retryDelayError |-> Undefined,  \* the error handed to it for the delay
                                   \* being awaited
   requestInterceptorCalls |-> 0,
   responseInterceptorCalls |-> 0,   \* in this attempt
   onRequestStartCalls |-> 0,
   onRequestEndCalls |-> 0,
   onRequestEndData |-> None,  \* response.data as handed to the onRequestEnd hooks
   onErrorCalls |-> 0,
   onErrorError |-> Undefined, \* the error handed to the onError handlers
   listeners |-> 0,            \* "abort" listeners this request has added to
                               \* config.signal and not removed
   warnings |-> 0]

Controller(r, attempt) == [req |-> r, attempt |-> attempt]
OuterController(r) == Controller(r, -1)

\* the finalConfig an error carries as `request`
FinalConfig(q) == [kind |-> "finalConfig", headers |-> q.headers]
RawConfig(q) == [kind |-> "config", headers |-> ConfigHeaders(q.config)]

\* a step's result: the request's new state and the client's controller set
Result(q, ac) == [q |-> q, ac |-> ac]

\* `throw err` out of request(): the promise rejects and the locals are gone
Reject(q, ac, err) ==
  Result([q EXCEPT !.pc = "rejected", !.rejection = err,
                   !.internalAborted = FALSE, !.combinedAborted = FALSE],
         ac)

\* faulty variant: listeners only, an input that has aborted already is missed
CombineAbortSignals_ListenOnly(hasSignal, userAborted) == FALSE

\* combineAbortSignals([finalConfig.signal, timeoutSignal, internalController.signal])
\* with a fresh timeout signal and a fresh internal controller: aborted on
\* return exactly when the caller's signal is present and already aborted
CombineAbortSignals(hasSignal, userAborted) == hasSignal /\ userAborted

\* the listeners one combineAbortSignals call adds to the caller's signal:
\* sig.addEventListener("abort", onAbort) unless it is absent or has aborted;
\* nothing removes the listener again
ListenersAdded(hasSignal, userAborted) ==
  IF hasSignal /\ ~userAborted THEN 1 ELSE 0

\* --------------------------------------------- combineAbortSignals in detail
\* an entry of the `signals` array: undefined, or an AbortSignal that has not
\* aborted or has
SignalStates == {"absent", "pending", "aborted"}
MaxSignals == 3
SignalLists == UNION {[1..n -> SignalStates] : n \in 0..MaxSignals}

\* no call made yet
NoCall ==
  [called |-> FALSE,
   inputs |-> <<>>,            \* the signals array, each entry as it is now
   given |-> <<>>,             \* the same, as it was when the call was made
   listening |-> {},           \* entries onAbort is registered on
   aborted |-> FALSE,          \* controller.signal.aborted
   abortedOnReturn |-> FALSE,  \* the same, when the call returned
   abortEvents |-> 0]          \* "abort" events of controller.signal

\* controller.abort(): a controller that has aborted stays as it is
ControllerAbort(c) ==
  IF c.aborted THEN c ELSE [c EXCEPT !.aborted = TRUE, !.abortEvents = @ + 1]

\* for (const sig of signals) { ... }, from entry i on
RECURSIVE CombineFrom(_, _, _)
CombineFrom(signals, i, c) ==
  IF i > Len(signals) THEN c
  ELSE IF signals[i] = "absent" THEN CombineFrom(signals, i + 1, c)
  ELSE IF signals[i] = "aborted" THEN ControllerAbort(c)
  ELSE CombineFrom(signals, i + 1, [c EXCEPT !.listening = @ \cup {i}])

\* faulty variant: every present entry is listened to, none is tested
CombineSignalList_ListenOnly(signals) ==
  [NoCall EXCEPT !.called = TRUE, !.inputs = signals, !.given = signals,
                 !.listening = {i \in 1..Len(signals) : signals[i] # "absent"}]

\* combineAbortSignals(signals), up to `return controller.signal`
CombineSignalList(signals) ==
  LET c == CombineFrom(signals, 1,
             [NoCall EXCEPT !.called = TRUE, !.inputs = signals, !.given = signals])
  IN  [c EXCEPT !.abortedOnReturn = c.aborted]

\* faulty variant: while (attempt < maxRetries)
LoopCondition_Strict(attempt, maxRetries) == attempt < maxRetries

\* while (attempt <= maxRetries)
LoopCondition(attempt, maxRetries) == attempt <= maxRetries

\* faulty variant: the attempt combines the timeout signal created before
\* the loop instead of one of its own
BeginAttempt_SharedTimeout(q, ac, r) ==
  LET ctrl == Controller(r, q.attempt)
      timed == q.config.timeoutMs # None
      combined == \/ CombineAbortSignals(q.config.signal, q.userAborted)
                  \/ q.outerTimer = "fired"
      q1 == [q EXCEPT !.timer = IF timed THEN "pending" ELSE None,
                      !.internalAborted = FALSE,
                      !.combinedAborted = combined,
                      !.listeners =
                        @ + ListenersAdded(q.config.signal, q.userAborted),
                      !.abortedBy = IF combined THEN "signal" ELSE None,
                      !.status = 0, !.data = None, !.plainText = None, !.i = 0,
                      !.handed = None, !.returned = None,
                      !.responseInterceptorCalls = 0,
                      !.lastError = Undefined, !.threw = None,
                      !.retryDelayError = Undefined]
  IN  IF combined
      THEN Reject([q1 EXCEPT !.timer = None,
                             !.staleTimers = IF timed THEN @ + 1 ELSE @],
                  ac,
                  ZephHttpError("ECANCELLED", 0, None, None, FinalConfig(q), None))
      ELSE Result([q1 EXCEPT !.pc = "fetch", !.fetchCalls = @ + 1],
                  ac \cup {ctrl})

\* one iteration of the retry loop up to `await fetch(...)`
BeginAttempt(q, ac, r) ==
  LET ctrl == Controller(r, q.attempt)
      timed == q.config.timeoutMs # None
      combined == CombineAbortSignals(q.config.signal, q.userAborted)
      \* the loop body's own locals start afresh in every iteration
      q1 == [q EXCEPT !.timer = IF timed THEN "pending" ELSE None,
                      !.internalAborted = FALSE,
                      !.combinedAborted = combined,
                      !.listeners =
                        @ + ListenersAdded(q.config.signal, q.userAborted),
                      !.abortedBy = IF combined THEN "signal" ELSE None,
                      !.status = 0, !.data = None, !.plainText = None, !.i = 0,
                      !.handed = None, !.returned = None,
                      !.responseInterceptorCalls = 0,
                      \* lastError is read again only when the loop ends with
                      \* no attempt made; every catch block overwrites it
                      !.lastError = Undefined, !.threw = None,
                      !.retryDelayError = Undefined]
  IN  IF combined
      THEN Reject([q1 EXCEPT !.timer = None,
                             !.staleTimers = IF timed THEN @ + 1 ELSE @],
                  ac,
                  ZephHttpError("ECANCELLED", 0, None, None, FinalConfig(q), None))
      ELSE Result([q1 EXCEPT !.pc = "fetch", !.fetchCalls = @ + 1],
                  ac \cup {ctrl})

\* for (const handler of onErrorHandlers) handler(err, finalConfig)
NotifyError(q) ==
  [q EXCEPT !.onErrorCalls = @ + 1, !.onErrorError = q.lastError]

\* faulty variant: a retry starts over from the request interceptors and the
\* onRequestStart handlers
RetryLoop_StartOver(q, ac, r) ==
  IF LoopCondition(q.attempt, q.maxRetries)
  THEN BeginAttempt(
         IF q.attempt > 0
         THEN [q EXCEPT !.requestInterceptorCalls = @ + requestHandlers,
                        !.onRequestStartCalls = @ + 1]
         ELSE q, ac, r)
  ELSE Reject(IF q.lastError.kind = "ZephHttpError" THEN NotifyError(q) ELSE q,
              ac, q.lastError)

\* the retry loop's head, and the code after the loop
RetryLoop(q, ac, r) ==
  IF LoopCondition(q.attempt, q.maxRetries)
  THEN BeginAttempt(q, ac, r)
  ELSE Reject(IF q.lastError.kind = "ZephHttpError" THEN NotifyError(q) ELSE q,
              ac, q.lastError)

\* guardBodyWithGetHead(method, body) throws
GuardBodyWithGetHead(method, body) ==
  (IF method = None THEN "GET" ELSE method) \in {"GET", "HEAD"} /\ body

\* warnDuplicateHeaders(defaultConfig.headers, callHeaders) warns
WarnDuplicateHeaders(defaults, callHeaders) ==
  \E k \in HeaderKeys : callHeaders[k] # None /\ k \in defaults

\* const headers = mergeHeaders(defaultConfig.headers, callHeaders), with
\* callHeaders the headers of finalConfig
SentHeaders(callHeaders) == MergeHeaders(DefaultHeaders, callHeaders)

\* from the end of the request-interceptor loop to the retry loop
AfterRequestInterceptors(q, ac, r) ==
  LET q1 == [q EXCEPT !.onRequestStartCalls = @ + 1] IN
  IF GuardBodyWithGetHead(q.config.method, q.config.body)
  THEN Reject(q1, ac, ZephHttpError(None, 0, None, None, NoRequest, None))
  ELSE RetryLoop(
         [q1 EXCEPT !.warnings =
                      IF WarnDuplicateHeaders(DefaultHeaders, q.headers)
                      THEN @ + 1 ELSE @,
                    !.outerTimer =
                      IF q.config.timeoutMs # None THEN "pending" ELSE None,
                    !.listeners =
                      ListenersAdded(q.config.signal, q.userAborted),
                    !.handed = None, !.returned = None,
                    !.sentHeaders = SentHeaders(q.headers),
                    !.maxRetries = q.config.retry,
                    !.attempt = 0],
         ac \cup {OuterController(r)}, r)

\* faulty variant: every handler is called with the config as merged at first
RequestInterceptorLoop_SameInput(q, ac, r) ==
  IF q.i < requestHandlers
  THEN Result([q EXCEPT !.pc = "requestInterceptor",
                        !.handed = MergeHeaders(DefaultHeaders, ConfigHeaders(q.config)),
                        !.requestInterceptorCalls = @ + 1], ac)
  ELSE AfterRequestInterceptors(q, ac, r)

\* for (let i = 0; i < interceptors.request.handlers.length; i++)
\*   finalConfig = await handler(finalConfig)
RequestInterceptorLoop(q, ac, r) ==
  IF q.i < requestHandlers
  THEN Result([q EXCEPT !.pc = "requestInterceptor",
                        !.handed = q.headers,
                        !.requestInterceptorCalls = @ + 1], ac)
  ELSE AfterRequestInterceptors(q, ac, r)

\* the delay the catch block computes: retryDelay(attempt + 1, err) returns
\* or throws as the caller's function chooses (d); a number is a positive delay
DelayOutcome(retryDelay, d) ==
  IF retryDelay = "function" THEN d
  ELSE IF retryDelay = "number" THEN "positive" ELSE "zero"

DelayChoices(q) ==
  IF q.config.retryDelay = "function" THEN {"zero", "positive", "throw"} ELSE {"zero"}

\* what responseSchema.safeParse may answer
SchemaChoices(q) == IF q.config.responseSchema THEN BOOLEAN ELSE {TRUE}

\* whether a body read may fail on an aborted signal
AbortChoices(q) == IF q.combinedAborted THEN BOOLEAN ELSE {FALSE}

\* faulty variant: the cancellation branch is missing
IsCancelled_Never(err) == FALSE

\* err?.code === "ECANCELLED"
IsCancelled(err) == err.code = "ECANCELLED"

\* err instanceof ZephHttpError && err.status && err.status >= 400 && err.status < 500
IsClientError(err) ==
  err.kind = "ZephHttpError" /\ err.status # 0 /\ err.status >= 400 /\ err.status < 500

\* faulty variant: if (attempt <= maxRetries)
AttemptsRemain_Inclusive(attempt, maxRetries) == attempt <= maxRetries

\* if (attempt < maxRetries)
AttemptsRemain(attempt, maxRetries) == attempt < maxRetries

\* the classification of an AbortError at the top of the catch block
ClassifyAbort(q, err) ==
  IF err.name = "AbortError"
  THEN IF q.config.timeoutMs # None /\ q.timer = "fired"
       THEN ZephHttpError("ETIMEDOUT", 0, None, None, FinalConfig(q), err.name)
       ELSE IF q.combinedAborted
       THEN ZephHttpError("ECANCELLED", 0, None, None, FinalConfig(q), err.name)
       ELSE err
  ELSE err

\* faulty variant: retryDelay(attempt, err), numbered from 0
RetryAttemptNumber_ZeroBased(attempt) == attempt

\* the attempt number in retryDelay(attempt + 1, err)
RetryAttemptNumber(attempt) == attempt + 1

\* faulty variant: the onError handlers are told of the attempt's error
\* before the retry
CallRetryDelay_Notify(q, err) ==
  IF q.config.retryDelay = "function"
  THEN [NotifyError(q) EXCEPT !.retryDelayCalls = @ + 1,
                              !.retryDelayArg = RetryAttemptNumber(q.attempt),
                              !.retryDelayError = err]
  ELSE NotifyError(q)

\* delayMs = retryDelay(attempt + 1, err) when retryDelay is a function
CallRetryDelay(q, err) ==
  IF q.config.retryDelay = "function"
  THEN [q EXCEPT !.retryDelayCalls = @ + 1,
                 !.retryDelayArg = RetryAttemptNumber(q.attempt),
                 !.retryDelayError = err]
  ELSE q

\* faulty variant: the attempt counter is left as it is
NextAttempt_Same(attempt) == attempt

\* attempt++
NextAttempt(attempt) == attempt + 1

\* catch (err) { ... } of the retry loop
CatchBlock(q0, ac0, r, thrown, d) ==
  LET q == [q0 EXCEPT !.timer = IF @ = "pending" THEN "cleared" ELSE @]
      ac == ac0 \ {Controller(r, q0.attempt)}
      err == ClassifyAbort(q, thrown)
      ql == [q EXCEPT !.lastError = err]
      qd == CallRetryDelay(ql, err)
      zeph == err.kind = "ZephHttpError"
      delay == DelayOutcome(q.config.retryDelay, d)
  IN  IF IsCancelled(err)
      THEN Reject(IF zeph THEN NotifyError(ql) ELSE ql, ac, err)
      ELSE IF IsClientError(err)
      THEN Reject(NotifyError(ql), ac, err)
      ELSE IF AttemptsRemain(q.attempt, q.maxRetries)
      THEN IF delay = "throw"
           THEN Reject([qd EXCEPT !.delays = @ + 1, !.threw = "retryDelay"],
                       ac, RawError("Error"))
           ELSE IF delay = "positive"
           THEN Result([qd EXCEPT !.pc = "delay", !.delays = @ + 1,
                                  \* the attempt's signals are read no more
                                  !.timer = None, !.internalAborted = FALSE,
                                  !.combinedAborted = FALSE], ac)
           ELSE RetryLoop([qd EXCEPT !.delays = @ + 1,
                                     !.attempt = NextAttempt(@)], ac, r)
      ELSE Reject(IF zeph THEN NotifyError(ql) ELSE ql, ac, err)

\* faulty variant: the onRequestEnd handlers run before the interceptors
ResponseInterceptorLoop_EndFirst(q, ac, r) ==
  LET q1 == IF q.i = 0
            THEN [q EXCEPT !.onRequestEndCalls = @ + 1, !.onRequestEndData = q.data]
            ELSE q
  IN  IF q.i < responseHandlers
      THEN Result([q1 EXCEPT !.pc = "responseInterceptor",
                             !.handed = q.data,
                             !.responseInterceptorCalls = @ + 1], ac)
      ELSE Result([q1 EXCEPT !.pc = "resolved",
                             !.handed = None, !.returned = None], ac)

\* for (let i = 0; i < interceptors.response.handlers.length; i++), then the
\* onRequestEnd handlers and `return response`
ResponseInterceptorLoop(q, ac, r) ==
  IF q.i < responseHandlers
  THEN Result([q EXCEPT !.pc = "responseInterceptor",
                        !.handed = q.data,
                        !.responseInterceptorCalls = @ + 1], ac)
  ELSE Result([q EXCEPT !.pc = "resolved", !.onRequestEndCalls = @ + 1,
                        !.onRequestEndData = q.data,
                        !.handed = None, !.returned = None], ac)

\* faulty variant: only 4xx and 5xx count as failures
ResponseOk_Below400(status) == status >= 200 /\ status < 400

\* res.ok
ResponseOk(status) == status >= 200 /\ status <= 299

\* faulty variant: the validator's output is dropped, response.data stays
\* the decoded body
AfterBodyRead_KeepRaw(q, ac, r, schemaOk, d) ==
  IF ~ResponseOk(q.status)
  THEN CatchBlock(q, ac, r,
         ZephHttpError("EHTTP", q.status, q.data, "response", FinalConfig(q), None), d)
  ELSE IF q.config.responseSchema /\ ~schemaOk
  THEN CatchBlock(q, ac, r,
         ZephHttpError("EZODRESPONSE", q.status, "issues", "response", FinalConfig(q), None), d)
  ELSE ResponseInterceptorLoop([q EXCEPT !.i = 0], ac, r)

\* from the decoded body to the first response interceptor: the status check
\* and the optional responseSchema.safeParse (schemaOk: its success)
AfterBodyRead(q, ac, r, schemaOk, d) ==
  IF ~ResponseOk(q.status)
  THEN CatchBlock(q, ac, r,
         ZephHttpError("EHTTP", q.status, q.data, "response", FinalConfig(q), None), d)
  ELSE IF q.config.responseSchema /\ ~schemaOk
  THEN CatchBlock(q, ac, r,
         ZephHttpError("EZODRESPONSE", q.status, "issues", "response", FinalConfig(q), None), d)
  ELSE ResponseInterceptorLoop(
         [q EXCEPT !.data = IF q.config.responseSchema THEN "validated" ELSE @,
                   !.i = 0], ac, r)

\* res.text(): undefined stands for a rejected read.  A Response body can be
\* read once: after res.json() has consumed it, res.text() rejects.
ReadText(body, bodyUsed, aborted) ==
  IF bodyUsed \/ aborted \/ body = "broken" THEN None ELSE "text"

\* res.json(): undefined stands for a rejected read or parse
ReadJson(body, aborted) ==
  IF aborted \/ body # "json" THEN None ELSE "parsed"

\* switch (finalConfig.responseType) { ... }: body is what the body reader
\* finds, aborted is whether the stream, cut by an aborted signal, fails the read
DecodeBody(q0, ac, r, body, aborted, schemaOk, d) ==
  LET q == [q0 EXCEPT !.plainText = ReadText(body, FALSE, aborted)] IN
  IF q.config.responseType = "text"
  THEN IF ReadText(body, FALSE, aborted) = None
       THEN CatchBlock(q, ac, r,
              RawError(IF aborted THEN "AbortError" ELSE "TypeError"), d)
       ELSE AfterBodyRead([q EXCEPT !.data = "text"], ac, r, schemaOk, d)
  ELSE IF ReadJson(body, aborted) = None
       THEN CatchBlock(q, ac, r,
              ZephHttpError("EJSONPARSE", q.status, ReadText(body, TRUE, aborted),
                            "empty", FinalConfig(q),
                            IF aborted THEN "AbortError" ELSE "SyntaxError"), d)
       ELSE AfterBodyRead([q EXCEPT !.data = "parsed"], ac, r, schemaOk, d)

\* --------------------------------------------------------------- actions
\* the tracked-controller set of the client request r was made through
Tracked(r) == IF req[r].client = 1 THEN activeControllers ELSE peerControllers

Apply(r, res) ==
  /\ req' = [req EXCEPT ![r] = res.q]
  /\ IF res.q.client = 1
     THEN activeControllers' = res.ac /\ UNCHANGED peerControllers
     ELSE peerControllers' = res.ac /\ UNCHANGED activeControllers

Registry == <<requestHandlers, responseHandlers>>

\* request(config), up to its first await
Request(q0, ac, r, config, aborted) ==
  LET q == [q0 EXCEPT !.config = config, !.userAborted = aborted,
                      !.abortedEarly = aborted,
                      !.triggeredAt = IF aborted THEN 0 ELSE @] IN
  IF ~SchemaValid(config)
  THEN Reject(q, ac, ZephHttpError("EVALIDATION", 0, "issues", None, RawConfig(q), None))
  ELSE RequestInterceptorLoop(
         [q EXCEPT !.headers = MergeHeaders(DefaultHeaders, ConfigHeaders(config)),
                   !.i = 0],
         ac, r)

\* the caller calls request(config); aborted: config.signal has aborted already
Submit(r, config, aborted) ==
  /\ req[r].pc = "idle"
  /\ aborted => config.signal
  /\ Apply(r, Request(req[r], Tracked(r), r, config, aborted))
  /\ UNCHANGED <<Registry, composite>>

\* request.withCancel(config): mergedConfig = { ...config, signal: controller.signal }
\* with a fresh controller; callerAborted: config.signal has aborted already
WithCancel(r, config, callerAborted) ==
  /\ req[r].pc = "idle"
  /\ callerAborted => config.signal
  /\ LET mergedConfig == [config EXCEPT !.signal = TRUE]
         q0 == [req[r] EXCEPT !.handle = TRUE,
                              !.triggeredAt = IF callerAborted THEN 0 ELSE @,
                              !.callerSignal =
                                IF ~config.signal THEN None
                                ELSE IF callerAborted THEN "aborted" ELSE "pending"]
     IN  Apply(r, Request(q0, Tracked(r), r, mergedConfig, FALSE))
  /\ UNCHANGED <<Registry, composite>>

\* what a request interceptor does with the config it is handed
InterceptorOutcomes == {"return", "setHeader", "throw"}

\* `finalConfig = await handler(finalConfig)` settles, and the code runs on
RequestInterceptorSettle(r, outcome) ==
  /\ req[r].pc = "requestInterceptor"
  /\ LET q == req[r] IN
     IF outcome = "throw"
     THEN Apply(r, Reject([q EXCEPT !.threw = "request"], Tracked(r),
                  WrapInterceptorError(RawError("Error"), "request", q.i)))
     ELSE LET result == IF outcome = "setHeader"
                        THEN [k \in HeaderKeys |-> "interceptor"]
                        ELSE IF outcome = "removeHeaders"
                        THEN [k \in HeaderKeys |-> None] ELSE q.headers
          IN  Apply(r, RequestInterceptorLoop(
                  [q EXCEPT !.headers = result, !.returned = result, !.i = @ + 1],
                  Tracked(r), r))
  /\ UNCHANGED <<Registry, composite>>

\* `await fetch(...)` resolves with a response
TransportRespond(r, status) ==
  /\ req[r].pc = "fetch"
  /\ ~req[r].combinedAborted
  /\ Apply(r, Result([req[r] EXCEPT !.pc = "decode",
                                    !.timer = IF @ = "pending" THEN "cleared" ELSE @,
                                    !.status = status,
                                    !.clientError =
                                      IF status >= 400 /\ status < 500 /\ @ = 0
                                      THEN req[r].fetchCalls ELSE @],
                     Tracked(r) \ {Controller(r, req[r].attempt)}))
  /\ UNCHANGED <<Registry, composite>>

\* `await fetch(...)` rejects with a network error
TransportFail(r, d) ==
  /\ req[r].pc = "fetch"
  /\ ~req[r].combinedAborted
  /\ Apply(r, CatchBlock(req[r], Tracked(r), r, RawError("TypeError"), d))
  /\ UNCHANGED <<Registry, composite>>

\* `await fetch(...)` rejects because its signal has aborted
TransportAbort(r, d) ==
  /\ req[r].pc = "fetch"
  /\ req[r].combinedAborted
  /\ Apply(r, CatchBlock(req[r], Tracked(r), r, RawError("AbortError"), d))
  /\ UNCHANGED <<Registry, composite>>

\* the body read settles, and the code runs on
BodyRead(r, body, aborted, schemaOk, d) ==
  /\ req[r].pc = "decode"
  /\ Apply(r, DecodeBody(req[r], Tracked(r), r, body, aborted, schemaOk, d))
  /\ UNCHANGED <<Registry, composite>>

\* `response = await onSuccess(response)` settles, and the code runs on
ResponseInterceptorSettle(r, outcome, d) ==
  /\ req[r].pc = "responseInterceptor"
  /\ LET q == req[r] IN
     IF outcome = "throw"
     THEN Apply(r, CatchBlock([q EXCEPT !.threw = "response"], Tracked(r), r,
                  WrapInterceptorError(RawError("Error"), "response", q.i), d))
     ELSE LET result == IF outcome = "setHeader" THEN "transformed" ELSE q.data
          IN  Apply(r, ResponseInterceptorLoop(
                  [q EXCEPT !.data = result, !.returned = result, !.i = @ + 1],
                  Tracked(r), r))
  /\ UNCHANGED <<Registry, composite>>

\* the retry delay's setTimeout fires: attempt++; continue
DelayElapsed(r) ==
  /\ req[r].pc = "delay"
  /\ Apply(r, RetryLoop([req[r] EXCEPT !.attempt = NextAttempt(@)], Tracked(r), r))
  /\ UNCHANGED <<Registry, composite>>

InFlight(q) == q.pc \notin {"idle", "resolved", "rejected"}

\* the caller aborts the signal it passed as config.signal
UserAbort(r) ==
  /\ InFlight(req[r])
  /\ req[r].config.signal
  /\ ~req[r].userAborted
  /\ req' = [req EXCEPT ![r].userAborted = TRUE,
                        ![r].abortedEarly = (req[r].fetchCalls = 0),
                        ![r].triggeredAt =
                           IF req[r].handle THEN @ ELSE req[r].fetchCalls,
                        \* the listener combineAbortSignals added for the
                        \* attempt under way aborts its combined signal
                        ![r].combinedAborted =
                           IF req[r].pc \in {"fetch", "decode", "responseInterceptor"}
                           THEN TRUE ELSE @,
                        ![r].abortedBy =
                           IF /\ req[r].pc \in {"fetch", "decode", "responseInterceptor"}
                              /\ ~req[r].combinedAborted
                           THEN "signal" ELSE @]
  /\ UNCHANGED <<Registry, activeControllers, peerControllers, composite>>

\* the handle's cancel(): controller.abort() on the signal of mergedConfig,
\* while the request is in flight or after it has settled
HandleCancel(r) ==
  /\ req[r].handle
  /\ IF InFlight(req[r])
     THEN UserAbort(r)
     ELSE /\ ~req[r].userAborted
          /\ req' = [req EXCEPT ![r].userAborted = TRUE]
          /\ UNCHANGED <<Registry, activeControllers, peerControllers, composite>>

\* the signal the caller had put in the config handed to withCancel aborts,
\* before the first transport call or during a transport call: mergedConfig
\* does not hold it, nothing listens to it
CallerSignalAbort(r) ==
  /\ req[r].handle
  /\ req[r].callerSignal = "pending"
  /\ req[r].pc \in {"requestInterceptor", "fetch"}
  /\ req' = [req EXCEPT ![r].callerSignal = "aborted",
                        ![r].triggeredAt = req[r].fetchCalls]
  /\ UNCHANGED <<Registry, activeControllers, peerControllers, composite>>

\* createTimeoutSignal's timer fires: controller.abort()
TimerFire(r) ==
  /\ req[r].timer = "pending"
  /\ req' = [req EXCEPT ![r].timer = "fired", ![r].combinedAborted = TRUE,
                        ![r].abortedBy = IF req[r].combinedAborted THEN @ ELSE "timer"]
  /\ UNCHANGED <<Registry, activeControllers, peerControllers, composite>>

\* the timer created before the retry loop fires: it aborts a signal that is
\* handed to nothing
OuterTimerFire(r) ==
  /\ req[r].outerTimer = "pending"
  /\ req' = [req EXCEPT ![r].outerTimer = "fired"]
  /\ UNCHANGED <<Registry, activeControllers, peerControllers, composite>>

\* faulty variant: one set of controllers shared by every client instance
CancelAll_SharedSet ==
  /\ \E r \in Reqs : InFlight(req[r]) /\ req[r].client = 1
  /\ req' = [r \in Reqs |->
               IF Controller(r, req[r].attempt) \in activeControllers \cup peerControllers
               THEN [req[r] EXCEPT !.cancelAll = 1,
                                   !.internalAborted = TRUE,
                                   !.combinedAborted = TRUE,
                                   !.abortedBy =
                                     IF req[r].combinedAborted THEN @ ELSE "cancelAll"]
               ELSE req[r]]
  /\ activeControllers' = {}
  /\ peerControllers' = {}
  /\ UNCHANGED <<Registry, composite>>

\* cancelAll()
CancelAll ==
  /\ \E r \in Reqs : InFlight(req[r]) /\ req[r].client = 1
  /\ LET Own(q) == InFlight(q) /\ q.client = 1
         n == Cardinality({r \in Reqs : Own(req[r])})
         Seen(q) == IF Own(q)
                    THEN [q EXCEPT !.cancelAll = IF @ < n THEN n ELSE @] ELSE q
     IN  req' = [r \in Reqs |->
                   IF Controller(r, req[r].attempt) \in activeControllers
                   THEN [Seen(req[r]) EXCEPT !.internalAborted = TRUE,
                                             !.combinedAborted = TRUE,
                                             !.abortedBy =
                                               IF req[r].combinedAborted
                                               THEN @ ELSE "cancelAll"]
                   ELSE Seen(req[r])]
  /\ activeControllers' = {}
  /\ UNCHANGED <<Registry, peerControllers, composite>>

\* The registry is filled while the client is set up and only read while
\* requests execute.
SettingUp == \A r \in Reqs : req[r].pc = "idle"

\* interceptors.request.use(fn)
UseRequestInterceptor ==
  /\ SettingUp
  /\ requestHandlers < MaxHandlers
  /\ requestHandlers' = requestHandlers + 1
  /\ UNCHANGED <<responseHandlers, activeControllers, req, peerControllers, composite>>

\* interceptors.response.use(onSuccess, onError)
UseResponseInterceptor ==
  /\ SettingUp
  /\ responseHandlers < MaxHandlers
  /\ responseHandlers' = responseHandlers + 1
  /\ UNCHANGED <<requestHandlers, activeControllers, req, peerControllers, composite>>

Init ==
  /\ requestHandlers = 0
  /\ responseHandlers = 0
  /\ activeControllers = {}
  /\ req = [r \in Reqs |-> Idle]
  /\ peerControllers = {}
  /\ composite = NoCall

Step(r) ==
  \/ \E outcome \in InterceptorOutcomes : RequestInterceptorSettle(r, outcome)
  \/ \E status \in Statuses : TransportRespond(r, status)
  \/ \E d \in DelayChoices(req[r]) : TransportFail(r, d)
  \/ \E d \in DelayChoices(req[r]) : TransportAbort(r, d)
  \/ \E body \in Bodies, aborted \in AbortChoices(req[r]),
        schemaOk \in SchemaChoices(req[r]), d \in DelayChoices(req[r]) :
       BodyRead(r, body, aborted, schemaOk, d)
  \/ \E outcome \in InterceptorOutcomes, d \in DelayChoices(req[r]) :
       ResponseInterceptorSettle(r, outcome, d)
  \/ DelayElapsed(r)
  \/ UserAbort(r)
  \/ TimerFire(r)

Next ==
  \/ /\ req[1].pc = "idle"
     /\ \E config \in Configs, aborted \in BOOLEAN : Submit(1, config, aborted)
  \/ \E r \in Reqs : Step(r)
  \/ CancelAll
  \/ UseRequestInterceptor
  \/ UseResponseInterceptor

Spec == Init /\ [][Next]_vars

\* ------------------------------------------- a transport that answers 5xx
\* Every transport call is answered with a 500 response; the caller may abort
\* its signal whenever no transport call is under way.
Configs5xx ==
  {config \in Configs : PlainGet(config) /\ config.retry >= 0
                           /\ config.timeoutMs = None /\ ~config.responseSchema}

Next5xx ==
  \/ /\ req[1].pc = "idle"
     /\ \E config \in Configs5xx, aborted \in BOOLEAN : Submit(1, config, aborted)
  \/ \E outcome \in InterceptorOutcomes : RequestInterceptorSettle(1, outcome)
  \/ TransportRespond(1, 500)
  \/ \E body \in Bodies, aborted \in AbortChoices(req[1]), d \in DelayChoices(req[1]) :
       BodyRead(1, body, aborted, TRUE, d)
  \/ DelayElapsed(1)
  \/ req[1].pc # "fetch" /\ UserAbort(1)
  \/ UseRequestInterceptor

Spec5xx == Init /\ [][Next5xx]_vars

\* ------------------------------------------ a transport that never answers
\* A timeout is configured and no transport call is answered: each call ends
\* when its signal aborts, by the timer, by the caller or by cancelAll().
ConfigsTimeout ==
  {config \in Configs : PlainGet(config) /\ config.retry >= 0
                           /\ config.timeoutMs = "positive"
                           /\ config.responseType = None /\ ~config.responseSchema}

NextTimeout ==
  \/ /\ req[1].pc = "idle"
     /\ \E config \in ConfigsTimeout, aborted \in BOOLEAN : Submit(1, config, aborted)
  \/ \E outcome \in InterceptorOutcomes : RequestInterceptorSettle(1, outcome)
  \/ TimerFire(1)
  \/ OuterTimerFire(1)
  \/ \E d \in DelayChoices(req[1]) : TransportAbort(1, d)
  \/ DelayElapsed(1)
  \/ UserAbort(1)
  \/ CancelAll
  \/ UseRequestInterceptor

SpecTimeout == Init /\ [][NextTimeout]_vars

\* ------------------------------------------------- several requests at once
\* Every request slot is used: requests of one client run side by side.
ConfigsConc ==
  {config \in Configs : PlainGet(config) /\ config.retry = 1
                           /\ config.retryDelay = "number" /\ config.method = None
                           /\ config.timeoutMs = None /\ ~config.signal
                           /\ config.responseType = None /\ ~config.responseSchema}

StepConc(r) ==
  \/ /\ req[r].pc = "idle"
     /\ \E config \in ConfigsConc : Submit(r, config, FALSE)
  \/ \E outcome \in {"return", "throw"} : RequestInterceptorSettle(r, outcome)
  \/ \E status \in {200, 500} : TransportRespond(r, status)
  \/ TransportFail(r, "zero")
  \/ TransportAbort(r, "zero")
  \/ \E aborted \in AbortChoices(req[r]) : BodyRead(r, "json", aborted, TRUE, "zero")
  \/ \E outcome \in {"return", "throw"} : ResponseInterceptorSettle(r, outcome, "zero")
  \/ DelayElapsed(r)

NextConc ==
  \/ \E r \in Reqs : StepConc(r)
  \/ CancelAll
  \/ UseRequestInterceptor
  \/ UseResponseInterceptor

SpecConc == Init /\ [][NextConc]_vars

\* ------------------------------------------- requests made with a handle
\* Requests are made through request.withCancel, with or without a signal of
\* the caller's in the config.
ConfigsCancel ==
  {config \in Configs : PlainGet(config) /\ config.retry \in {0, 1}
                           /\ config.retryDelay # "function"
                           /\ config.responseType = None /\ ~config.responseSchema}

NextCancel ==
  \/ /\ req[1].pc = "idle"
     /\ \E config \in ConfigsCancel, callerAborted \in BOOLEAN :
          WithCancel(1, config, callerAborted)
  \/ \E outcome \in InterceptorOutcomes : RequestInterceptorSettle(1, outcome)
  \/ \E status \in Statuses : TransportRespond(1, status)
  \/ TransportAbort(1, "zero")
  \/ \E body \in Bodies, aborted \in AbortChoices(req[1]) :
       BodyRead(1, body, aborted, TRUE, "zero")
  \/ DelayElapsed(1)
  \/ HandleCancel(1)
  \/ CallerSignalAbort(1)
  \/ TimerFire(1)
  \/ UseRequestInterceptor

SpecCancel == Init /\ [][NextCancel]_vars

\* ------------------------------------------------ combineAbortSignals alone
\* One call of combineAbortSignals on an array of up to MaxSignals entries;
\* its signals abort one by one, before the call or after it.
CombineCall ==
  /\ ~composite.called
  /\ composite' = CombineSignalList(composite.inputs)
  /\ UNCHANGED <<Registry, activeControllers, req, peerControllers>>

\* entry i aborts; onAbort runs if it is registered on that signal
InputAbort(i) ==
  /\ i \in 1..Len(composite.inputs)
  /\ composite.inputs[i] = "pending"
  /\ LET c == [composite EXCEPT !.inputs[i] = "aborted"]
     IN  composite' = IF i \in composite.listening THEN ControllerAbort(c) ELSE c
  /\ UNCHANGED <<Registry, activeControllers, req, peerControllers>>

InitCombine ==
  /\ requestHandlers = 0
  /\ responseHandlers = 0
  /\ activeControllers = {}
  /\ req = [r \in Reqs |-> Idle]
  /\ peerControllers = {}
  /\ composite \in {[NoCall EXCEPT !.inputs = s, !.given = s] : s \in SignalLists}

NextCombine ==
  \/ CombineCall
  \/ \E i \in 1..MaxSignals : InputAbort(i)

SpecCombine == InitCombine /\ [][NextCombine]_vars

\* ------------------------------------------------------ two client instances
\* A second createZephClient() instance with a tracked-controller set of its
\* own; neither client has interceptors.  Request 1 is made through the first
\* client, the other requests through the second.
PeerRequest(r, config) ==
  /\ req[r].pc = "idle"
  /\ Apply(r, Request([req[r] EXCEPT !.client = 2], peerControllers, r, config, FALSE))
  /\ UNCHANGED <<Registry, composite>>

StepClients(r) ==
  \/ \E status \in {200, 500} : TransportRespond(r, status)
  \/ TransportFail(r, "zero")
  \/ TransportAbort(r, "zero")
  \/ \E aborted \in AbortChoices(req[r]) : BodyRead(r, "json", aborted, TRUE, "zero")
  \/ DelayElapsed(r)

NextClients ==
  \/ \E config \in ConfigsConc : Submit(1, config, FALSE)
  \/ \E r \in Reqs \ {1}, config \in ConfigsConc : PeerRequest(r, config)
  \/ \E r \in Reqs : StepClients(r)
  \/ CancelAll

SpecClients == Init /\ [][NextClients]_vars

\* --------------------------------------------------- interceptors and headers
\* Single-attempt requests with and without headers of their own, on a client
\* whose request interceptors may also return a config without the headers.
ConfigsHeaders ==
  {config \in Configs : SingleAttempt(config) /\ config.path = "/todos"
                           /\ config.timeoutMs = None}

NextHeaders ==
  \/ /\ req[1].pc = "idle"
     /\ \E config \in ConfigsHeaders : Submit(1, config, FALSE)
  \/ \E outcome \in InterceptorOutcomes \cup {"removeHeaders"} :
       RequestInterceptorSettle(1, outcome)
  \/ \E status \in Statuses : TransportRespond(1, status)
  \/ TransportFail(1, "zero")
  \/ \E body \in Bodies : BodyRead(1, body, FALSE, TRUE, "zero")
  \/ UseRequestInterceptor

SpecHeaders == Init /\ [][NextHeaders]_vars

\* ------------------------------------------------------ everything settles
\* Every await of request() settles in the end: an interceptor, the transport
\* call, the body read and the retry delay each return or throw.  The caller's
\* abort, the timers and cancelAll() may happen or not.
ConfigsLive ==
  {config \in Configs : PlainGet(config) /\ config.method = None
                           /\ config.responseType = None /\ ~config.responseSchema}

\* the steps by which the code of request r runs on
Progress(r) ==
  \/ \E outcome \in {"return", "throw"} : RequestInterceptorSettle(r, outcome)
  \/ \E status \in Statuses : TransportRespond(r, status)
  \/ \E d \in DelayChoices(req[r]) : TransportFail(r, d)
  \/ \E d \in DelayChoices(req[r]) : TransportAbort(r, d)
  \/ \E body \in {"json", "text"}, aborted \in AbortChoices(req[r]),
        d \in DelayChoices(req[r]) :
       BodyRead(r, body, aborted, TRUE, d)
  \/ \E outcome \in {"return", "throw"}, d \in DelayChoices(req[r]) :
       ResponseInterceptorSettle(r, outcome, d)
  \/ DelayElapsed(r)

NextLive ==
  \/ /\ req[1].pc = "idle"
     /\ \E config \in ConfigsLive, aborted \in BOOLEAN : Submit(1, config, aborted)
  \/ Progress(1)
  \/ UserAbort(1)
  \/ TimerFire(1)
  \/ CancelAll
  \/ UseRequestInterceptor
  \/ UseResponseInterceptor

SpecLive == Init /\ [][NextLive]_vars /\ WF_vars(Progress(1))

\* ------------------------------------------------------------- properties
Settled(q) == q.pc \in {"resolved", "rejected"}

\* C1: a request whose path is missing or the empty string is rejected with a
\* ZephHttpError of code EVALIDATION, and for it no request interceptor is
\* invoked and no transport call is made.
C1_EmptyPathRejected ==
  \A r \in Reqs :
    req[r].pc # "idle" /\ req[r].config.path \in {"missing", "empty"}
    => /\ req[r].pc = "rejected"
       /\ req[r].rejection.kind = "ZephHttpError"
       /\ req[r].rejection.code = "EVALIDATION"
       /\ req[r].requestInterceptorCalls = 0
       /\ req[r].fetchCalls = 0

\* an empty path rejected on a client that has request interceptors
C1_Witness ==
  \E r \in Reqs :
    /\ req[r].pc = "rejected" /\ req[r].config.path = "empty"
    /\ req[r].rejection.code = "EVALIDATION" /\ requestHandlers > 0

ReachesRetryLoop(q) ==
  /\ q.config.path = "/todos"
  /\ q.config.method \in {None, "GET", "POST"}
  /\ q.config.timeoutMs # "negative"
  /\ q.threw # "request"
  /\ ~((q.config.method \in {None, "GET"}) /\ q.config.body)

C4_Original ==
  \A r \in Reqs :
    req[r].pc = "rejected" => req[r].rejection.kind = "ZephHttpError"

\* C5 as stated: every request that was in flight, together with at least
\* one other, when cancelAll() was called settles with code ECANCELLED.
C5_Original ==
  \A r \in Reqs :
    req[r].cancelAll > 1 /\ Settled(req[r])
    => req[r].pc = "rejected" /\ req[r].rejection.code = "ECANCELLED"

\* C6 as stated: once a transport call has been answered with a status in
\* [400,500), the request makes no further transport call and computes no
\* retry delay.
C6_Original ==
  \A r \in Reqs :
    req[r].clientError > 0
    => /\ req[r].fetchCalls = req[r].clientError
       /\ req[r].delays = req[r].clientError - 1

C9_RequestInterceptorThrow ==
  \A r \in Reqs :
    req[r].threw = "request"
    => /\ req[r].pc = "rejected"
       /\ req[r].rejection.interceptorType = "request"
       /\ req[r].rejection.interceptorIndex = req[r].i
       /\ req[r].requestInterceptorCalls = req[r].i + 1
       /\ req[r].fetchCalls = 0

\* an interceptor that is not the last one has thrown
C9_Witness ==
  \E r \in Reqs :
    /\ req[r].threw = "request" /\ req[r].pc = "rejected"
    /\ req[r].i + 1 < requestHandlers

\* C10 as stated: when a request interceptor throws, the error's request is
\* the description as the interceptors before it returned it.
C10_Original ==
  \A r \in Reqs :
    req[r].threw = "request" => req[r].rejection.request = FinalConfig(req[r])

\* C11 as stated: an error request() rejects with because a request or
\* response interceptor threw carries code EINTERCEPTOR.
C11_Original ==
  \A r \in Reqs :
    req[r].pc = "rejected" /\ req[r].threw \in {"request", "response"}
    => req[r].rejection.code = "EINTERCEPTOR"

\* C12 as stated: once a response interceptor has thrown, the request is
\* rejected with that interceptor error: no retry delay is awaited and no
\* further transport call is made.
C12_Original ==
  \A r \in Reqs :
    req[r].threw = "response"
    => /\ req[r].pc = "rejected"
       /\ req[r].rejection.interceptorType = "response"

\* C13 as stated: an attempt whose transport call threw an error that is not
\* an abort fails with a ZephHttpError of code ENETWORK whose cause is the
\* thrown error.
C13_Original ==
  \A r \in Reqs :
    /\ req[r].pc \in {"delay", "rejected"}
    /\ req[r].fetchCalls > 0 /\ req[r].status = 0
    /\ req[r].lastError.kind # "undefined"
    /\ req[r].lastError.cause # "AbortError"
    => /\ req[r].lastError.kind = "ZephHttpError"
       /\ req[r].lastError.code = "ENETWORK"
       /\ req[r].lastError.cause = "TypeError"

\* C14 as stated: whenever request() has rejected, the onError lifecycle
\* hooks have been invoked for that request.
C14_Original ==
  \A r \in Reqs : req[r].pc = "rejected" => req[r].onErrorCalls > 0

\* C19 as stated: an attempt that has failed with code EHTTP is followed by a
\* retry delay only if its status is at least 500.
C19_Original ==
  \A r \in Reqs :
    req[r].pc = "delay" /\ req[r].lastError.code = "EHTTP"
    => req[r].lastError.status >= 500

\* C20 as stated: a valid request that got past the request interceptors
\* with method GET (or none) and a body is rejected with a ZephHttpError of
\* code EMISUSE, and no transport call is made.
C20_Original ==
  \A r \in Reqs :
    /\ req[r].pc \notin {"idle", "requestInterceptor"}
    /\ req[r].config.path = "/todos" /\ req[r].config.timeoutMs # "negative"
    /\ req[r].config.method \in {None, "GET"} /\ req[r].config.body
    /\ req[r].threw # "request"
    => /\ req[r].pc = "rejected"
       /\ req[r].fetchCalls = 0
       /\ req[r].rejection.kind = "ZephHttpError"
       /\ req[r].rejection.code = "EMISUSE"

\* C18: an attempt classified ECANCELLED ends the request: the request is
\* rejected with that error at once, with no retry delay awaited and no
\* further transport call, whatever the retry count and whoever cancelled.
C18_CancelledNotRetried ==
  \A r \in Reqs :
    req[r].lastError.code = "ECANCELLED"
    => /\ req[r].pc = "rejected"
       /\ req[r].rejection = req[r].lastError
       /\ req[r].delays = req[r].fetchCalls - 1

\* a call cancelled by cancelAll() while retries with a delay remained
C18_Witness ==
  \E r \in Reqs :
    /\ req[r].pc = "rejected" /\ req[r].lastError.code = "ECANCELLED"
    /\ req[r].cancelAll > 0 /\ req[r].attempt < req[r].maxRetries
    /\ req[r].config.retryDelay = "number"

\* C15 as stated: when request() has rejected, every registered response
\* error-handler has been invoked once.
C15_Original ==
  \A r \in Reqs :
    req[r].pc = "rejected" => req[r].responseOnErrorCalls = responseHandlers

\* C16 as stated: a request made through withCancel with a caller's signal in
\* its config, whose caller's signal has aborted before the first transport
\* call or during a transport call, settles (unless a request interceptor
\* threw) rejected with code ECANCELLED.
C16_Original ==
  \A r \in Reqs :
    /\ req[r].handle /\ req[r].callerSignal = "aborted"
    /\ Settled(req[r]) /\ req[r].threw # "request"
    => req[r].pc = "rejected" /\ req[r].rejection.code = "ECANCELLED"

\* C17 as stated: an attempt whose transport call was aborted is classified
\* ETIMEDOUT if the attempt's timer was the first to abort its signal, and
\* ECANCELLED if the caller's signal or cancelAll() was.
C17_Original ==
  \A r \in Reqs :
    /\ req[r].pc \in {"delay", "rejected"}
    /\ req[r].status = 0 /\ req[r].lastError.cause = "AbortError"
    => req[r].lastError.code =
         IF req[r].abortedBy = "timer" THEN "ETIMEDOUT" ELSE "ECANCELLED"

\* C21 as stated: an attempt that failed with code EJSONPARSE has the decode
\* error as cause and, as data, the plain text of the response body, absent
\* only when the body cannot be read as text.
C21_Original ==
  \A r \in Reqs :
    req[r].pc \in {"delay", "rejected"} /\ req[r].lastError.code = "EJSONPARSE"
    => /\ req[r].lastError.cause \in {"SyntaxError", "AbortError"}
       /\ req[r].lastError.data = req[r].plainText

\* C22: when a responseSchema is supplied and validation succeeds, the first
\* response interceptor is handed the validator's output as response.data,
\* and every later interceptor, the onRequestEnd hooks and the caller see the
\* validator's output or what an interceptor made of it, never the decoded
\* body.
C22_ValidatedData ==
  \A r \in Reqs :
    req[r].config.responseSchema /\ req[r].pc \in {"responseInterceptor", "resolved"}
    => /\ req[r].data \in {"validated", "transformed"}
       /\ req[r].pc = "responseInterceptor" /\ req[r].i = 0
          => req[r].data = "validated"
       /\ req[r].pc = "resolved" /\ responseHandlers = 0
          => req[r].data = "validated"

\* a validated response that went through interceptors unchanged and resolved
C22_Witness ==
  \E r \in Reqs :
    /\ req[r].pc = "resolved" /\ req[r].config.responseSchema
    /\ responseHandlers > 0 /\ req[r].responseInterceptorCalls = responseHandlers
    /\ req[r].data = "validated"

\* C23: a request that has resolved has had its onRequestEnd hooks run once,
\* after all response interceptors and with the response as the last of them
\* left it; a request that has not resolved has not had them run.
C23_RequestEndOnSuccess ==
  \A r \in Reqs :
    IF req[r].pc = "resolved"
    THEN /\ req[r].onRequestEndCalls = 1
         /\ req[r].responseInterceptorCalls = responseHandlers
         /\ req[r].onRequestEndData = req[r].data
    ELSE /\ req[r].onRequestEndCalls = 0
         /\ req[r].onRequestEndData = None

\* a success on a retry, with every response interceptor run and the data
\* transformed by one of them
C23_Witness ==
  \E r \in Reqs :
    /\ req[r].pc = "resolved" /\ req[r].attempt > 0
    /\ responseHandlers = MaxHandlers /\ req[r].data = "transformed"
    /\ req[r].onRequestEndCalls = 1

C25_Original ==
  \A r \in Reqs :
    req[r].pc # "idle" /\ req[r].config.retry < 0
    => /\ req[r].pc = "rejected"
       /\ req[r].rejection.code = "EVALIDATION"
       /\ req[r].requestInterceptorCalls = 0
       /\ req[r].fetchCalls = 0

\* C28 as stated: whenever no request of the client is in flight, the
\* client's set of tracked controllers is empty.
C28_Original ==
  (\A r \in Reqs : ~InFlight(req[r])) => activeControllers = {}

\* C26 as stated: when the handle's cancel() is what aborted a pending
\* transport call of a request made through withCancel, the request rejects
\* with code ECANCELLED at once, with no retry delay and no further attempt.
C26_Original ==
  \A r \in Reqs :
    /\ req[r].handle /\ req[r].abortedBy = "signal"
    /\ req[r].status = 0 /\ req[r].pc # "fetch"
    => req[r].pc = "rejected" /\ req[r].rejection.code = "ECANCELLED"

\* C27: with a timeout and a transport that never answers, as long as the
\* caller's signal has not aborted and cancelAll() has not been called, an
\* attempt starts with a fresh timer and a signal that is not aborted,
\* whatever timers fired before, and the request never rejects with code
\* ECANCELLED.
C27_FreshSignals ==
  \A r \in Reqs :
    ~req[r].userAborted /\ req[r].cancelAll = 0
    => /\ req[r].pc = "rejected" => req[r].rejection.code # "ECANCELLED"
       /\ req[r].pc = "fetch"
          => /\ req[r].timer \in {"pending", "fired"}
             /\ req[r].combinedAborted <=> req[r].timer = "fired"

\* a retry under way, its own timer pending, after the first attempt timed
\* out and the timer created before the loop has fired as well
C27_Witness ==
  \E r \in Reqs :
    /\ req[r].pc = "fetch" /\ req[r].attempt > 0
    /\ ~req[r].userAborted /\ req[r].cancelAll = 0
    /\ req[r].outerTimer = "fired"
    /\ req[r].timer = "pending" /\ ~req[r].combinedAborted

\* C29 as stated: once a request has settled, no timeout timer created for
\* it is still pending.
C29_Original ==
  \A r \in Reqs :
    Settled(req[r])
    => /\ req[r].timer # "pending"
       /\ req[r].outerTimer # "pending"
       /\ req[r].staleTimers = 0

\* C30: after a request has settled it has no "abort" listener left on the
\* caller's signal, whatever the number of attempts it made.
C30_Original ==
  \A r \in Reqs : Settled(req[r]) => req[r].listeners = 0

\* C31: the signal combineAbortSignals returns has aborted on return exactly
\* when some entry given to it had aborted already; afterwards it has aborted
\* exactly when some entry has aborted; it aborts once, however many entries
\* abort; undefined entries are not listened to.
C31_CompositeAborts ==
  composite.called
  => /\ composite.abortedOnReturn
          <=> \E i \in 1..Len(composite.given) : composite.given[i] = "aborted"
     /\ composite.aborted
          <=> \E i \in 1..Len(composite.inputs) : composite.inputs[i] = "aborted"
     /\ composite.abortEvents = IF composite.aborted THEN 1 ELSE 0
     /\ \A i \in composite.listening : composite.given[i] = "pending"

\* an undefined entry and two signals that aborted after the call
C31_Witness ==
  /\ composite.called /\ ~composite.abortedOnReturn
  /\ \E i \in 1..Len(composite.given) : composite.given[i] = "absent"
  /\ Cardinality({i \in 1..Len(composite.inputs) :
                    composite.inputs[i] = "aborted"}) = 2
  /\ composite.aborted /\ composite.abortEvents = 1

\* C32: for one request the request interceptors are called one at a time in
\* registration order, each with what the one before it resolved with (the
\* first with the merged config); the response success handlers likewise,
\* the first with the decoded (or validated) body.
C32_InterceptorsInOrder ==
  \A r \in Reqs :
    /\ req[r].pc = "requestInterceptor"
       => /\ req[r].i < requestHandlers
          /\ req[r].requestInterceptorCalls = req[r].i + 1
          /\ req[r].handed =
               IF req[r].i = 0
               THEN [k \in HeaderKeys |->
                       IF k \in req[r].config.headers THEN "request"
                       ELSE IF k \in DefaultHeaders THEN "default" ELSE None]
               ELSE req[r].returned
    /\ req[r].pc = "responseInterceptor"
       => /\ req[r].i < responseHandlers
          /\ req[r].responseInterceptorCalls = req[r].i + 1
          /\ IF req[r].i = 0
             THEN req[r].handed \in {"parsed", "text", "validated"}
             ELSE req[r].handed = req[r].returned

\* two request interceptors have run, the headers one of them set are in
\* finalConfig, and the second response handler is called with the data the
\* first one returned
C32_Witness ==
  \E r \in Reqs :
    /\ req[r].pc = "responseInterceptor" /\ req[r].i = 1
    /\ req[r].handed = "transformed" /\ req[r].returned = "transformed"
    /\ req[r].requestInterceptorCalls = 2
    /\ req[r].headers = [k \in HeaderKeys |-> "interceptor"]

\* C33 as stated: the duplicate-header warning is given for a request exactly
\* when a key of the client's default headers is also among the request's own
\* headers.
C33_Original ==
  \A r \in Reqs :
    /\ req[r].warnings > 0 => req[r].config.headers \cap DefaultHeaders # {}
    /\ req[r].fetchCalls > 0 /\ req[r].config.headers \cap DefaultHeaders # {}
       => req[r].warnings > 0

\* C34: cancelAll() on one client leaves the requests made through another
\* client instance and that client's set of tracked controllers as they are.
C34_CancelAllOwnClient ==
  [][CancelAll
       => /\ peerControllers' = peerControllers
          /\ \A r \in Reqs : req[r].client = 2 => req'[r] = req[r]]_vars

\* cancelAll() has aborted the first client's request and emptied its set
\* while a request of the second client is with the transport, tracked and
\* not aborted
C34_Witness ==
  \E r, s \in Reqs :
    /\ req[r].client = 1 /\ req[r].cancelAll > 0 /\ req[r].abortedBy = "cancelAll"
    /\ activeControllers = {}
    /\ req[s].client = 2 /\ req[s].pc = "fetch" /\ ~req[s].combinedAborted
    /\ Controller(s, req[s].attempt) \in peerControllers

\* C35 as stated: once the signal the caller supplied with a request has
\* aborted, no further transport call is started for that request.
C35_Original ==
  \A r \in Reqs :
    req[r].triggeredAt >= 0 => req[r].fetchCalls = req[r].triggeredAt

\* C36: whatever the number of attempts, each request interceptor is called
\* at most once for a request and the onRequestStart handlers are run at most
\* once; both have happened once before the first transport call.
C36_OncePerRequest ==
  \A r \in Reqs :
    /\ req[r].requestInterceptorCalls <= requestHandlers
    /\ req[r].onRequestStartCalls <= 1
    /\ req[r].fetchCalls > 0
       => /\ req[r].requestInterceptorCalls = requestHandlers
          /\ req[r].onRequestStartCalls = 1

\* the last retry of a request on a client with request interceptors
C36_Witness ==
  \E r \in Reqs :
    /\ req[r].fetchCalls = MaxRetry + 1 /\ req[r].attempt = MaxRetry
    /\ requestHandlers = MaxHandlers
    /\ req[r].requestInterceptorCalls = MaxHandlers
    /\ req[r].onRequestStartCalls = 1

\* C37: the onError handlers are run at most once for a request, with the
\* error the request is rejected with and as it is rejected: not for an
\* attempt that is retried, not for a request that resolves.
C37_ErrorHookOnce ==
  \A r \in Reqs :
    /\ req[r].onErrorCalls <= 1
    /\ req[r].onErrorCalls = 1
       => req[r].pc = "rejected" /\ req[r].onErrorError = req[r].rejection
    /\ req[r].pc = "resolved" => req[r].onErrorCalls = 0

\* every retry used up, with a retry-delay function, and the handlers told
\* of the last attempt's error
C37_Witness ==
  \E r \in Reqs :
    /\ req[r].pc = "rejected" /\ req[r].fetchCalls = MaxRetry + 1
    /\ req[r].retryDelayCalls = MaxRetry
    /\ req[r].onErrorCalls = 1 /\ req[r].onErrorError.code = "EHTTP"

\* C38 as stated: a request for which the onRequestStart handlers were run
\* has, once settled, had exactly one closing notification: the onRequestEnd
\* handlers or the onError handlers were run once, not both and not neither.
C38_Original ==
  \A r \in Reqs :
    Settled(req[r]) /\ req[r].onRequestStartCalls = 1
    => req[r].onRequestEndCalls + req[r].onErrorCalls = 1

\* C39 as stated: the headers given to the transport call are the headers of
\* finalConfig as the request interceptors left them.
C39_Original ==
  \A r \in Reqs :
    req[r].fetchCalls > 0 => req[r].sentHeaders = req[r].headers

\* C40: with retry count N, a request never makes more than max(N, 0) + 1
\* transport calls, and when every await settles in the end, a request that
\* was made settles in the end.
C40_SettlesWithinBound ==
  /\ [](\A r \in Reqs :
          req[r].fetchCalls
            <= (IF req[r].config.retry > 0 THEN req[r].config.retry ELSE 0) + 1)
  /\ \A r \in Reqs : (req[r].pc # "idle") ~> Settled(req[r])

\* the largest retry count used up: as many transport calls as allowed, then
\* the rejection
C40_Witness ==
  \E r \in Reqs :
    /\ req[r].pc = "rejected" /\ req[r].config.retry = MaxRetry
    /\ req[r].fetchCalls = MaxRetry + 1 /\ req[r].delays = MaxRetry
====
